---------------------------- MODULE Spec2Model ----------------------------
(***************************************************************************)
(* A model of the flat-file query engine of src/sqlparser.h.              *)
(*                                                                         *)
(* C strings are sequences of one-character strings.  The durable state is *)
(* the catalog file __tables_data.dat, one text file per table and the     *)
(* temporary files UPDATE and DELETE leave behind.  One step of the model  *)
(* is one call of SQLExecuteQuery on one query line.                       *)
(***************************************************************************)
EXTENDS Integers, Sequences, FiniteSets, TLC

(***************************************************************************)
(* Bounds of the model.                                                    *)
(***************************************************************************)
\* rows a table file may hold before the model stops issuing INSERT
MaxRows == 2
\* records the catalog may hold before the model stops issuing DATASET
MaxTables == 3
\* temporary files that may be left behind before the model stops
MaxTemps == 1

(***************************************************************************)
(* Characters and the C library routines the program calls.                *)
(***************************************************************************)
AsciiTable ==
  <<" ","!","\"","#","$","%","&","'","(",")","*","+",",","-",".","/",
    "0","1","2","3","4","5","6","7","8","9",":",";","<","=",">","?","@",
    "A","B","C","D","E","F","G","H","I","J","K","L","M","N","O","P","Q",
    "R","S","T","U","V","W","X","Y","Z","[","\\","]","^","_","(backquote)",
    "a","b","c","d","e","f","g","h","i","j","k","l","m","n","o","p","q",
    "r","s","t","u","v","w","x","y","z","{","|","}","~">>

\* the value of a char: what strcmp orders by
Ascii(c) ==
  IF c = "\n" THEN 10
  ELSE IF c = "\t" THEN 9
  ELSE 31 + (CHOOSE i \in 1..Len(AsciiTable) : AsciiTable[i] = c)

\* isspace() on the characters of the model
isspace(c) == c \in {" ", "\t", "\n"}

\* strcmp(lhs, rhs): the sign of the first difference, a proper prefix is smaller
RECURSIVE strcmpFrom(_, _, _)
strcmpFrom(lhs, rhs, i) ==
  IF i > Len(lhs) /\ i > Len(rhs) THEN 0
  ELSE IF i > Len(lhs) THEN -1
  ELSE IF i > Len(rhs) THEN 1
  ELSE IF lhs[i] = rhs[i] THEN strcmpFrom(lhs, rhs, i + 1)
  ELSE IF Ascii(lhs[i]) < Ascii(rhs[i]) THEN -1
  ELSE 1

strcmp(lhs, rhs) == strcmpFrom(lhs, rhs, 1)

Digits == <<"0","1","2","3","4","5","6","7","8","9">>

isdigit(c) == \E d \in 1..10 : Digits[d] = c

DigitVal(c) == (CHOOSE d \in 1..10 : Digits[d] = c) - 1

\* the range of long / int of the build (32 bits)
LongMax == 2147483647

Clamp(n) == IF n > LongMax THEN LongMax
            ELSE IF n < -LongMax - 1 THEN -LongMax - 1 ELSE n

\* index of the first character at or after i that is not white space
RECURSIVE SkipSpace(_, _)
SkipSpace(s, i) ==
  IF i <= Len(s) /\ isspace(s[i]) THEN SkipSpace(s, i + 1) ELSE i

\* the decimal digits of s from i on: [value, next index]
RECURSIVE ReadDigits(_, _, _)
ReadDigits(s, i, acc) ==
  IF i <= Len(s) /\ isdigit(s[i])
  THEN ReadDigits(s, i + 1, Clamp(10 * acc + DigitVal(s[i])))
  ELSE [value |-> acc, next |-> i]

\* strtol(s, NULL, 10): white space, an optional sign, digits; 0 without digits
strtol(s) ==
  LET i == SkipSpace(s, 1)
      neg == i <= Len(s) /\ s[i] = "-"
      j == IF i <= Len(s) /\ s[i] \in {"-", "+"} THEN i + 1 ELSE i
      d == ReadDigits(s, j, 0)
  IN  IF neg THEN -d.value ELSE d.value

\* strtod(s, NULL) on literals with at most one fractional digit, in tenths
strtod(s) ==
  LET i == SkipSpace(s, 1)
      neg == i <= Len(s) /\ s[i] = "-"
      j == IF i <= Len(s) /\ s[i] \in {"-", "+"} THEN i + 1 ELSE i
      d == ReadDigits(s, j, 0)
      k == d.next
      frac == IF k + 1 <= Len(s) /\ s[k] = "." /\ isdigit(s[k + 1])
              THEN DigitVal(s[k + 1]) ELSE 0
      t == 10 * d.value + frac
  IN  IF neg THEN -t ELSE t

\* the conversion of a float (in tenths) to int: truncation towards zero
FloatToInt(t) == IF t < 0 THEN -((-t) \div 10) ELSE t \div 10

\* printf("%d") of a non-negative number
RECURSIVE NatToStr(_)
NatToStr(n) ==
  IF n < 10 THEN <<Digits[n + 1]>>
  ELSE Append(NatToStr(n \div 10), Digits[(n % 10) + 1])

\* printf("%d")
IntToStr(n) == IF n < 0 THEN <<"-">> \o NatToStr(-n) ELSE NatToStr(n)

\* printf("%g") of a float given in tenths
FloatToStr(t) ==
  LET m == IF t < 0 THEN -t ELSE t
      sign == IF t < 0 THEN <<"-">> ELSE <<>>
  IN  IF m % 10 = 0 THEN sign \o NatToStr(m \div 10)
      ELSE sign \o NatToStr(m \div 10) \o <<".">> \o <<Digits[(m % 10) + 1]>>

(***************************************************************************)
(* Keywords.                                                               *)
(***************************************************************************)
kwDATASET     == <<"D","A","T","A","S","E","T">>
kwDELETE      == <<"D","E","L","E","T","E">>
kwINSERT_INTO == <<"I","N","S","E","R","T","_","I","N","T","O">>
kwSELECT      == <<"S","E","L","E","C","T">>
kwUPDATE      == <<"U","P","D","A","T","E">>
kwBOOLEAN     == <<"B","O","O","L","E","A","N">>
kwINTEGER     == <<"I","N","T","E","G","E","R">>
kwNUMBER      == <<"N","U","M","B","E","R">>
kwSTRING      == <<"S","T","R","I","N","G">>
strTrue       == <<"T","r","u","e">>
strFalse      == <<"F","a","l","s","e">>

\* the command map with its first and last entries exchanged
QueryTypes_Unsorted ==
  << [string |-> kwUPDATE,      type |-> "Update"],
     [string |-> kwDELETE,      type |-> "Delete"],
     [string |-> kwINSERT_INTO, type |-> "Insert"],
     [string |-> kwSELECT,      type |-> "Select"],
     [string |-> kwDATASET,     type |-> "Create"] >>

\* the command map, in the order of the source
QueryTypes ==
  << [string |-> kwDATASET,     type |-> "Create"],
     [string |-> kwDELETE,      type |-> "Delete"],
     [string |-> kwINSERT_INTO, type |-> "Insert"],
     [string |-> kwSELECT,      type |-> "Select"],
     [string |-> kwUPDATE,      type |-> "Update"] >>

\* the data type map, in the order of the source
DataTypes ==
  << [string |-> kwBOOLEAN, type |-> "Boolean"],
     [string |-> kwINTEGER, type |-> "Integer"],
     [string |-> kwNUMBER,  type |-> "Number"],
     [string |-> kwSTRING,  type |-> "String"] >>

\* bsearch(): binary search of map[lo+1 .. hi] with compare()
RECURSIVE bsearch(_, _, _, _)
bsearch(key, map, lo, hi) ==
  IF lo >= hi THEN 0
  ELSE LET mid == (lo + hi) \div 2
           c == strcmp(key, map[mid + 1].string)
       IN  IF c < 0 THEN bsearch(key, map, lo, mid)
           ELSE IF c > 0 THEN bsearch(key, map, mid + 1, hi)
           ELSE mid + 1

SQLParser_FindInMap(query, map) ==
  LET found == bsearch(query, map, 0, Len(map))
  IN  IF found = 0 THEN "Invalid" ELSE map[found].type

SQLParser_GetQueryType(query) == SQLParser_FindInMap(query, QueryTypes)

SQLParser_GetFieldType(query) == SQLParser_FindInMap(query, DataTypes)

(***************************************************************************)
(* The lexer.                                                              *)
(***************************************************************************)
\* the switch of SQLParser_Parse without its case '='
OperatorChars_NoEqual == {":", "<", ">", "!"}

OperatorChars == {":", "<", ">", "!", "="}

\* the byte at q[i]; "NUL" is the terminator, and what follows the modelled memory
CharAt(q, i) == IF i <= Len(q) THEN q[i] ELSE "NUL"

\* index of the terminator of the C string that holds q[i]
RECURSIVE Terminator(_, _)
Terminator(q, i) == IF CharAt(q, i) = "NUL" THEN i ELSE Terminator(q, i + 1)

\* the C string at the start of the bytes b
CStr(b) == SubSeq(b, 1, Terminator(b, 1) - 1)

\* the operator at q[i] and the index of its last character
SQLfindOperator_helper(q, i) ==
  IF q[i] = ">"
  THEN IF CharAt(q, i + 1) = "="
       THEN [operator |-> "GreaterOrEqualOperator", at |-> i + 1]
       ELSE [operator |-> "GreaterThanOperator", at |-> i]
  ELSE IF q[i] = "<"
  THEN IF CharAt(q, i + 1) = "="
       THEN [operator |-> "LessOrEqualOperator", at |-> i + 1]
       ELSE IF CharAt(q, i + 1) = ">"
       THEN [operator |-> "NotEqualOperator", at |-> i + 1]
       ELSE [operator |-> "LessThanOperator", at |-> i]
  ELSE IF q[i] = "!" /\ q[i] = "="
  THEN [operator |-> "NotEqualOperator", at |-> i + 1]
  ELSE IF q[i] = "="
  THEN [operator |-> "EqualOperator", at |-> i]
  ELSE [operator |-> "AssignOperator", at |-> i]

\* the buffer without leading and trailing white space
RECURSIVE TrimLeft(_)
TrimLeft(b) == IF Len(b) > 0 /\ isspace(b[1]) THEN TrimLeft(Tail(b)) ELSE b

RECURSIVE TrimRight(_)
TrimRight(b) ==
  IF Len(b) > 0 /\ isspace(b[Len(b)]) THEN TrimRight(SubSeq(b, 1, Len(b) - 1))
  ELSE b

\* index of the first ' after i, or 0
RECURSIVE ClosingQuote(_, _)
ClosingQuote(q, i) ==
  IF CharAt(q, i) = "NUL" THEN 0
  ELSE IF q[i] = "'" THEN i
  ELSE ClosingQuote(q, i + 1)

Token(keyword, operator, value) ==
  [keyword |-> keyword, operator |-> operator, value |-> value]

appendToken(head, keyword, operator, value) ==
  Append(head, Token(keyword, operator, CStr(value)))

\* what SQLParser_Parse returns: the list (<<>> is NULL); error: the abort label
\* was taken; undefined: the scan read memory it does not own
ParseResult(list, error, undefined) ==
  [list |-> list, error |-> error, undefined |-> undefined]

\* the scanning loop from position i on; s holds the locals of SQLParser_Parse
RECURSIVE ScanLoop(_, _, _)
ScanLoop(q, i, s) ==
  IF CharAt(q, i) = "NUL"
  THEN IF s.state = "ScanValue"
       THEN ParseResult(appendToken(s.head, s.keyword, s.operator, s.buffer),
                        FALSE, s.undefined)
       ELSE ParseResult(s.head, FALSE, s.undefined)
  ELSE IF q[i] \in OperatorChars
  THEN LET found == SQLfindOperator_helper(q, i)
       IN  IF s.state = "ScanToken"
           THEN ScanLoop(q, SkipSpace(q, found.at + 1),
                         [s EXCEPT !.state = "ScanValue",
                                   !.keyword = TrimRight(TrimLeft(s.buffer)),
                                   !.buffer = <<>>,
                                   !.operator = found.operator,
                                   \* buffer[0] and buffer[index - 1] are read
                                   \* with index = 0
                                   !.undefined = @ \/ s.buffer = <<>>])
           ELSE ParseResult(<<>>, TRUE, s.undefined)
  ELSE IF q[i] = "'"
  THEN IF s.state # "ScanValue"
       THEN ParseResult(<<>>, TRUE, s.undefined)
       ELSE LET close == ClosingQuote(q, i + 1)
                end == Terminator(q, i + 1)
            IN  IF close = 0
                \* no closing quote: the terminator is copied too and the scan
                \* goes on two bytes after it, in the memory behind the line
                THEN ScanLoop(q, end + 2,
                       [s EXCEPT !.buffer = @ \o SubSeq(q, i + 1, end - 1) \o <<"NUL">>,
                                 !.undefined = TRUE])
                ELSE ScanLoop(q, close + 1,
                       [s EXCEPT !.buffer = @ \o SubSeq(q, i + 1, close - 1)])
  ELSE IF isspace(q[i])
  THEN IF s.state = "ScanValue"
       THEN ScanLoop(q, i + 1,
              [s EXCEPT !.head = appendToken(@, s.keyword, s.operator, s.buffer),
                        !.buffer = <<>>,
                        !.state = "ScanToken"])
       ELSE ScanLoop(q, i + 1, s)
  ELSE ScanLoop(q, i + 1, [s EXCEPT !.buffer = Append(@, q[i])])

SQLParser_Parse(query) ==
  ScanLoop(query, 1,
           [state |-> "ScanToken", buffer |-> <<>>, keyword |-> <<>>,
            operator |-> "AssignOperator", head |-> <<>>, undefined |-> FALSE])

(***************************************************************************)
(* Values, columns and rows.                                               *)
(***************************************************************************)
\* union Value, kept as a struct: the member the type selects is meaningful
ZeroValue == [integer |-> 0, number |-> 0, string |-> <<>>, boolean |-> FALSE]

\* a struct Column of a row cleared by memset
ZeroColumn == [value |-> ZeroValue, type |-> "Integer", position |-> 0]

\* the copy of a string without one leading and one trailing quote
StripQuotes(string) ==
  LET s1 == IF Len(string) > 0 /\ string[1] = "'" THEN Tail(string) ELSE string
  IN  IF Len(s1) > 0 /\ s1[Len(s1)] = "'" THEN SubSeq(s1, 1, Len(s1) - 1) ELSE s1

SQLvalueFromStringAndType(string, type) ==
  CASE type = "Integer" -> [ZeroValue EXCEPT !.integer = strtol(string)]
    [] type = "Boolean" -> [ZeroValue EXCEPT !.boolean = (strcmp(strTrue, string) = 0)]
    [] type = "Number"  -> [ZeroValue EXCEPT !.number = strtod(string)]
    [] type = "String"  -> [ZeroValue EXCEPT !.string = StripQuotes(string)]
    \* no case of the switch applies: the value stays unset and is never read
    [] OTHER -> ZeroValue

\* the text SQLwriteRowToFile prints for one column
FormatColumn(column) ==
  CASE column.type = "Integer" -> IntToStr(column.value.integer) \o <<";">>
    [] column.type = "Boolean" ->
         (IF column.value.boolean THEN strTrue ELSE strFalse) \o <<";">>
    [] column.type = "Number"  -> FloatToStr(column.value.number) \o <<";">>
    [] column.type = "String"  -> <<"'">> \o column.value.string \o <<"'", ";">>
    [] OTHER -> <<>>

RECURSIVE FormatColumns(_, _, _)
FormatColumns(columns, i, n) ==
  IF i > n THEN <<>>
  ELSE FormatColumn(columns[i]) \o FormatColumns(columns, i + 1, n)

\* the line SQLwriteRowToFile prints for a row
SQLwriteRowToFile(row) ==
  IntToStr(row.index) \o <<";">>
    \o FormatColumns(row.columns, 1, row.columnCount) \o <<"\n">>

\* the columns SQLwriteRowToStdout prints for a row
SQLwriteRowToStdout(row) == SubSeq(row.columns, 1, row.columnCount)

(***************************************************************************)
(* The catalog.                                                            *)
(***************************************************************************)
\* a struct TableStructureInfo cleared by memset
ZeroTable == [name |-> <<>>, count |-> 0, columns |-> <<>>, columnTypes |-> <<>>]

\* columnTypes[k] of a record: the entries after count are zero, Integer
TypeAt(tableStructure, k) ==
  IF k + 1 <= Len(tableStructure.columnTypes)
  THEN tableStructure.columnTypes[k + 1] ELSE "Integer"

RECURSIVE FindColumnFrom(_, _, _)
FindColumnFrom(table, column, i) ==
  IF i >= table.count THEN -1
  ELSE IF strcmp(column, table.columns[i + 1]) = 0 THEN i
  ELSE FindColumnFrom(table, column, i + 1)

SQLParser_FindColumn(table, column) == FindColumnFrom(table, column, 0)

\* the records of the file from i on: the first whose name equals name
RECURSIVE FindTableFrom(_, _, _)
FindTableFrom(name, records, i) ==
  IF i > Len(records) THEN ZeroTable
  ELSE IF strcmp(name, records[i].name) = 0 THEN records[i]
  ELSE FindTableFrom(name, records, i + 1)

\* cat is the catalog file: [exists, records]
SQLParser_FindTable(name, cat) ==
  IF ~cat.exists THEN ZeroTable ELSE FindTableFrom(name, cat.records, 1)

\* memcpy(dst, src, length) into a cleared array, read back as a C string
CopyBytes(src, length) ==
  IF Len(src) >= length THEN SubSeq(src, 1, length) ELSE src

\* the struct the loop of SQLParser_CreateTable fills, or aborted
RECURSIVE CreateColumns(_, _)
CreateColumns(current, info) ==
  IF current = <<>> THEN [aborted |-> FALSE, info |-> info]
  ELSE IF Len(current[1].keyword) > 128 * 128 - 1
  THEN [aborted |-> TRUE, info |-> info]
  ELSE LET next == [info EXCEPT
                      !.columns = Append(@, current[1].keyword),
                      !.columnTypes = Append(@, SQLParser_GetFieldType(current[1].value)),
                      !.count = @ + 1]
       IN  IF next.count > 128 * 4
           THEN [aborted |-> TRUE, info |-> next]
           ELSE CreateColumns(Tail(current), next)

\* SQLParser_CreateTable opening the catalog with "w" in place of "a": the
\* records already stored are lost
CreateTable_Truncating(list, cat) ==
  LET info == [ZeroTable EXCEPT !.name = CopyBytes(list[1].value, Len(list[1].keyword))]
  IN  [cat |-> [exists |-> TRUE, records |-> <<CreateColumns(Tail(list), info).info>>],
       ret |-> 0]

\* the catalog file after SQLParser_CreateTable(list) and the value returned
SQLParser_CreateTable(list, cat) ==
  LET opened == [cat EXCEPT !.exists = TRUE]
      length == Len(list[1].keyword)
  IN  IF length > 128 - 1
      THEN [cat |-> opened, ret |-> 1]
      ELSE LET info == [ZeroTable EXCEPT !.name = CopyBytes(list[1].value, length)]
               made == CreateColumns(Tail(list), info)
           IN  IF made.aborted
               THEN [cat |-> opened, ret |-> 1]
               ELSE [cat |-> [opened EXCEPT !.records = Append(@, made.info)],
                     ret |-> 0]

(***************************************************************************)
(* The predicate evaluator.                                                *)
(***************************************************************************)
Bool(b) == IF b THEN 1 ELSE 0

RelationalOperators ==
  {"EqualOperator", "NotEqualOperator", "GreaterThanOperator",
   "GreaterOrEqualOperator", "LessThanOperator", "LessOrEqualOperator"}

\* CompareNumbers with the LessOrEqual case written lhs <= rhs
CompareNumbers_LessOrEqual(operator, lhs, rhs) ==
  CASE operator = "EqualOperator"          -> Bool(lhs = rhs)
    [] operator = "NotEqualOperator"       -> Bool(lhs # rhs)
    [] operator = "GreaterThanOperator"    -> Bool(lhs > rhs)
    [] operator = "GreaterOrEqualOperator" -> Bool(lhs >= rhs)
    [] operator = "LessThanOperator"       -> Bool(lhs < rhs)
    [] operator = "LessOrEqualOperator"    -> Bool(lhs <= rhs)
    [] OTHER -> -1

\* the six comparisons of two ints as the Integer and Number cases write them
CompareNumbers(operator, lhs, rhs) ==
  CASE operator = "EqualOperator"          -> Bool(lhs = rhs)
    [] operator = "NotEqualOperator"       -> Bool(lhs # rhs)
    [] operator = "GreaterThanOperator"    -> Bool(lhs > rhs)
    [] operator = "GreaterOrEqualOperator" -> Bool(lhs >= rhs)
    [] operator = "LessThanOperator"       -> Bool(lhs < rhs)
    [] operator = "LessOrEqualOperator"    -> Bool(lhs >= rhs)
    [] OTHER -> -1

CompareStrings(operator, c) ==
  CASE operator = "EqualOperator"          -> Bool(c = 0)
    [] operator = "NotEqualOperator"       -> Bool(c # 0)
    [] operator = "GreaterThanOperator"    -> Bool(c > 0)
    [] operator = "GreaterOrEqualOperator" -> Bool(c >= 0)
    [] operator = "LessThanOperator"       -> Bool(c < 0)
    [] operator = "LessOrEqualOperator"    -> Bool(c <= 0)
    [] OTHER -> -1

\* list is the token compared; the literal is the left operand
SQLcompareValues(list, value, type) ==
  IF list.operator = "InvalidOperator" THEN -1
  ELSE CASE type = "Integer" ->
              CompareNumbers(list.operator, strtol(list.value), value.integer)
         [] type = "Number" ->
              CompareNumbers(list.operator, FloatToInt(strtod(list.value)),
                             FloatToInt(value.number))
         [] type = "String" ->
              CompareStrings(list.operator, strcmp(list.value, value.string))
         [] type = "Boolean" ->
              IF list.operator \in RelationalOperators
              THEN Bool((strcmp(strTrue, list.value) = 0) = value.boolean)
              ELSE -1
         [] OTHER -> 1

\* row->columns[position]: the entries the read did not set are zero
ColumnAt(row, position) ==
  IF position + 1 <= Len(row.columns) THEN row.columns[position + 1]
  ELSE ZeroColumn

\* whether the condition token rejects the row
Rejects(token, tableStructure, row) ==
  LET position == SQLParser_FindColumn(tableStructure, token.keyword)
  IN  /\ position # -1
      /\ LET column == ColumnAt(row, position)
             compared == SQLcompareValues(token, column.value, column.type)
         IN  /\ compared # -1
             /\ position = column.position
             /\ compared = 0

\* list is the whole token list, its first token the command
SQLfilterRow(list, tableStructure, row) ==
  IF list = <<>> THEN 0
  ELSE IF Tail(list) = <<>> THEN 1
  ELSE IF \E k \in 2..Len(list) : Rejects(list[k], tableStructure, row) THEN 0
  ELSE 1

(***************************************************************************)
(* The storage engine.  A table file is [exists, lines]; a line is the     *)
(* text of one record with its newline.  Every line of the model is        *)
(* shorter than the buffer of 2 + 128 * count bytes SQLreadRow reads into, *)
(* so fgets returns whole lines.                                           *)
(***************************************************************************)
NoFile == [exists |-> FALSE, lines |-> <<>>]

\* fopen(name, "r") on the table files: the file, or NoFile when it fails
FileOf(files, name) == IF name \in DOMAIN files THEN files[name] ELSE NoFile

\* strtok(line, ";") called until NULL: the non-empty pieces between separators
RECURSIVE strtok(_, _, _)
strtok(line, i, piece) ==
  IF i > Len(line) THEN (IF piece = <<>> THEN <<>> ELSE <<piece>>)
  ELSE IF line[i] = ";"
  THEN (IF piece = <<>> THEN <<>> ELSE <<piece>>) \o strtok(line, i + 1, <<>>)
  ELSE strtok(line, i + 1, Append(piece, line[i]))

\* the row SQLreadRow builds from one line
SQLreadRow(line, tableStructure) ==
  LET tokens == strtok(line, 1, <<>>)
      column(k) ==
        LET type == TypeAt(tableStructure, k)
        IN  [position |-> k, type |-> type,
             value |-> SQLvalueFromStringAndType(tokens[k + 2], type)]
  IN  [index |-> IF tokens = <<>> THEN 0 ELSE strtol(tokens[1]),
       columns |-> [k \in 1..(Len(tokens) - 1) |-> column(k - 1)],
       \* one column per token after the index, then "fixed" by one: the
       \* newline is a token too
       columnCount |-> Len(tokens) - 1 - 1]

RECURSIVE LoadRows(_, _, _)
LoadRows(lines, list, tableStructure) ==
  IF lines = <<>> THEN <<>>
  ELSE LET row == SQLreadRow(lines[1], tableStructure)
           rest == LoadRows(Tail(lines), list, tableStructure)
       IN  IF list # <<>> /\ SQLfilterRow(list, tableStructure, row) = 0
           THEN rest ELSE <<row>> \o rest

\* struct Table as SQLloadTable returns it.  state tells what the function
\* set: "set" (rows and rowCount), "null" (rows = NULL, rowCount never
\* assigned: no row was stored), "wild" (neither assigned: fopen failed)
SQLloadTable(list, tableStructure, files) ==
  LET file == FileOf(files, tableStructure.name)
  IN  IF ~file.exists THEN [rows |-> <<>>, state |-> "wild"]
      ELSE LET rows == LoadRows(file.lines, list, tableStructure)
           IN  [rows |-> rows, state |-> IF rows = <<>> THEN "null" ELSE "set"]

\* SQLisValidRow without the lookup of the column name
IsValidRow_NoLookup(list, tableStructure, row) ==
  IF list = <<>> THEN 1
  ELSE IF row.columnCount > tableStructure.count THEN 0
  ELSE 1

\* list is the token the caller passes (<<>> is NULL), row a loaded row
SQLisValidRow(list, tableStructure, row) ==
  IF list = <<>> THEN 1
  ELSE IF row.columnCount > tableStructure.count THEN 0
  ELSE IF SQLParser_FindColumn(tableStructure, list[1].keyword) = -1 THEN 0
  ELSE 1

\* the outcomes of reading the unset members of a struct Table: the value
\* found in rowCount, and what a read through the unset rows pointer does
Undefined == [rowCount : {0, 1, 2}, wild : {"crash", "invalid"}]

\* the failures of the file system a statement may meet
Faults == [write : BOOLEAN, remove : BOOLEAN, rename : BOOLEAN]

NoFault == [write |-> FALSE, remove |-> FALSE, rename |-> FALSE]

\* what an executor leaves: the table files, the temporary files left behind,
\* the rows printed, and whether the process went down inside it
Outcome(files, temps, out, crashed) ==
  [files |-> files, temps |-> temps, out |-> out, crashed |-> crashed]

(***************************************************************************)
(* SELECT.                                                                 *)
(***************************************************************************)
RECURSIVE SQLprintTable(_)
SQLprintTable(rows) ==
  IF rows = <<>> THEN <<>>
  ELSE <<SQLwriteRowToStdout(rows[1])>> \o SQLprintTable(Tail(rows))

SQLselect(list, tableStructure, files, temps, u) ==
  LET table == SQLloadTable(list, tableStructure, files)
  IN  IF table.state = "set"
      THEN Outcome(files, temps, SQLprintTable(table.rows), FALSE)
      \* rowCount was never assigned: with 0 found there nothing is printed,
      \* otherwise rows[0] is read through NULL or through an unset pointer
      ELSE IF u.rowCount = 0
      THEN Outcome(files, temps, <<>>, FALSE)
      ELSE Outcome(files, temps, <<>>, TRUE)

(***************************************************************************)
(* INSERT.                                                                 *)
(***************************************************************************)
\* the loop of SQLinsert over the tokens after the first
RECURSIVE InsertLoop(_, _, _)
InsertLoop(list, tableStructure, row) ==
  IF list = <<>> THEN [accepted |-> TRUE, row |-> row]
  ELSE IF list[1].operator # "AssignOperator"
  THEN [accepted |-> FALSE, row |-> row]
  ELSE IF SQLisValidRow(list, tableStructure, row) = 0
  THEN [accepted |-> FALSE, row |-> row]
  ELSE LET type == TypeAt(tableStructure, row.columnCount)
           column == [type |-> type,
                      value |-> SQLvalueFromStringAndType(list[1].value, type),
                      position |-> SQLParser_FindColumn(tableStructure, list[1].keyword)]
       IN  InsertLoop(Tail(list), tableStructure,
                      [row EXCEPT !.columns = Append(@, column),
                                  !.columnCount = @ + 1])

\* fopen(table, "a+") and one line appended; nothing when the open fails
SQLwriteRow(table, row, files) ==
  IF table \notin DOMAIN files THEN files
  ELSE [files EXCEPT ![table] =
          [exists |-> TRUE, lines |-> Append(@.lines, SQLwriteRowToFile(row))]]

SQLinsert(list, tableStructure, files, temps) ==
  LET built == InsertLoop(Tail(list), tableStructure,
                          [index |-> 0, columns |-> <<>>, columnCount |-> 0])
  IN  IF built.accepted
      THEN Outcome(SQLwriteRow(tableStructure.name, built.row, files), temps, <<>>, FALSE)
      ELSE Outcome(files, temps, <<>>, FALSE)

(***************************************************************************)
(* UPDATE and DELETE.                                                      *)
(***************************************************************************)
\* the lines a failing disk keeps of the text written: the last one is lost
Written(lines, f) ==
  IF f.write /\ lines # <<>> THEN SubSeq(lines, 1, Len(lines) - 1) ELSE lines

\* fclose(file); remove(name); rename(filename, name) with the temporary file
\* holding lines.  rename fails when the target still exists.
Commit(name, lines, files, temps, f) ==
  LET removed == FileOf(files, name).exists /\ ~f.remove
      present == FileOf(files, name).exists /\ ~removed
      renamed == name \in DOMAIN files /\ ~present /\ ~f.rename
  IN  IF renamed
      THEN Outcome([files EXCEPT ![name] = [exists |-> TRUE, lines |-> Written(lines, f)]],
                   temps, <<>>, FALSE)
      ELSE IF removed
      THEN Outcome([files EXCEPT ![name] = NoFile], temps + 1, <<>>, FALSE)
      ELSE Outcome(files, temps + 1, <<>>, FALSE)

\* abort: fclose(file); remove(filename)
Abort(files, temps) == Outcome(files, temps, <<>>, FALSE)

\* the process goes down with the temporary file open
Crash(files, temps) == Outcome(files, temps + 1, <<>>, TRUE)

\* the lines the loop of SQLdelete writes for the rows
RECURSIVE DeleteLoop(_, _, _)
DeleteLoop(rows, list, tableStructure) ==
  IF rows = <<>> THEN <<>>
  ELSE (IF SQLfilterRow(list, tableStructure, rows[1]) = 0
        THEN <<SQLwriteRowToFile(rows[1])>> ELSE <<>>)
       \o DeleteLoop(Tail(rows), list, tableStructure)

SQLdelete(list, tableStructure, files, temps, u, f) ==
  LET table == SQLloadTable(<<>>, tableStructure, files)
      name == tableStructure.name
  IN  IF table.state = "set"
      THEN IF \E i \in 1..Len(table.rows) :
                SQLisValidRow(Tail(list), tableStructure, table.rows[i]) = 0
           THEN Abort(files, temps)
           ELSE Commit(name, DeleteLoop(table.rows, list, tableStructure),
                       files, temps, f)
      \* rowCount was never assigned
      ELSE IF u.rowCount = 0 \/ Tail(list) = <<>>
      \* no turn of the loop, or turns that never read the row
      THEN Commit(name, <<>>, files, temps, f)
      ELSE IF table.state = "null"
      \* SQLisValidRow finds row == NULL
      THEN Abort(files, temps)
      ELSE IF u.wild = "crash" THEN Crash(files, temps)
      ELSE Abort(files, temps)

\* row->columns[index].value = value
SetColumnValue(row, index, value) ==
  [row EXCEPT !.columns =
     [k \in 1..(IF index + 1 > Len(row.columns) THEN index + 1 ELSE Len(row.columns)) |->
        IF k = index + 1 THEN [ColumnAt(row, k - 1) EXCEPT !.value = value]
        ELSE ColumnAt(row, k - 1)]]

\* the row after the assignments of list
RECURSIVE ApplyAssignments(_, _, _)
ApplyAssignments(list, tableStructure, row) ==
  IF list = <<>> THEN row
  ELSE LET index == SQLParser_FindColumn(tableStructure, list[1].keyword)
       IN  IF list[1].operator = "AssignOperator" /\ index # -1
           THEN ApplyAssignments(Tail(list), tableStructure,
                  SetColumnValue(row, index,
                    SQLvalueFromStringAndType(list[1].value,
                                              TypeAt(tableStructure, index))))
           ELSE ApplyAssignments(Tail(list), tableStructure, row)

\* the line SQLupdateRowAndWriteToFile writes for a row
SQLupdateRowAndWriteToFile(tableStructure, list, row) ==
  SQLwriteRowToFile(ApplyAssignments(list, tableStructure, row))

\* the lines the loop of SQLupdate writes for the rows
RECURSIVE UpdateLoop(_, _, _)
UpdateLoop(rows, list, tableStructure) ==
  IF rows = <<>> THEN <<>>
  ELSE (IF SQLfilterRow(list, tableStructure, rows[1]) = 0
        THEN <<SQLwriteRowToFile(rows[1])>>
        ELSE <<SQLupdateRowAndWriteToFile(tableStructure, Tail(list), rows[1])>>)
       \o UpdateLoop(Tail(rows), list, tableStructure)

SQLupdate(list, tableStructure, files, temps, u, f) ==
  LET table == SQLloadTable(<<>>, tableStructure, files)
      name == tableStructure.name
  IN  IF table.state = "set"
      THEN IF \E i \in 1..Len(table.rows) :
                SQLisValidRow(Tail(list), tableStructure, table.rows[i]) = 0
           THEN Abort(files, temps)
           ELSE Commit(name, UpdateLoop(table.rows, list, tableStructure),
                       files, temps, f)
      \* rowCount was never assigned
      ELSE IF u.rowCount = 0
      THEN Commit(name, <<>>, files, temps, f)
      ELSE IF Tail(list) # <<>>
      THEN (IF table.state = "null" \/ u.wild = "invalid"
            THEN Abort(files, temps) ELSE Crash(files, temps))
      \* no token after the first: every row "matches" and is written
      ELSE IF table.state = "null" /\ u.rowCount = 1
      \* SQLupdateRowAndWriteToFile returns on row == NULL
      THEN Commit(name, <<>>, files, temps, f)
      ELSE Crash(files, temps)

(***************************************************************************)
(* The query lines the model types at the prompt.                          *)
(***************************************************************************)
\* one "keyword operator value" element of a query line
Element(keyword, lexeme, value) == keyword \o lexeme \o value

RECURSIVE Join(_)
Join(elements) ==
  IF elements = <<>> THEN <<>>
  ELSE <<" ">> \o elements[1] \o Join(Tail(elements))

\* a query line in the syntax the lexer accepts: command:table element ...
Line(command, table, elements) ==
  command \o <<":">> \o table \o Join(elements)

tableT    == <<"t">>
tableLong == <<"c","u","s","t","o","m","e","r","s">>
stored7   == <<"c","u","s","t","o","m","e">>
colA == <<"a">>
colB == <<"b">>
colC == <<"c">>
colK == <<"k">>
colQ == <<"q">>
opAssign == <<":">>
opEq == <<"=">>
opGe == <<">","=">>

CreateT    == Line(kwDATASET, tableT,
                   <<Element(colA, opAssign, kwSTRING),
                     Element(colB, opAssign, kwINTEGER),
                     Element(colC, opAssign, kwNUMBER)>>)
CreateLong == Line(kwDATASET, tableLong, <<Element(colK, opAssign, kwBOOLEAN)>>)

CreateBadType == Line(kwDATASET, tableT, <<Element(colA, opAssign, <<"T","E","X","T">>)>>)
CreateDup     == Line(kwDATASET, tableT,
                      <<Element(colA, opAssign, kwSTRING), Element(colA, opAssign, kwINTEGER)>>)
InsertFull    == Line(kwINSERT_INTO, tableT,
                      <<Element(colA, opAssign, <<"x">>),
                        Element(colB, opAssign, <<"1">>),
                        Element(colC, opAssign, <<"2",".","5">>)>>)
InsertSwapped == Line(kwINSERT_INTO, tableT,
                      <<Element(colB, opAssign, <<"7">>),
                        Element(colA, opAssign, <<"x">>)>>)
InsertSep     == Line(kwINSERT_INTO, tableT,
                      <<Element(colA, opAssign, <<"x",";","y">>)>>)
InsertOne     == Line(kwINSERT_INTO, tableT, <<Element(colA, opAssign, <<"x">>)>>)
InsertBad     == Line(kwINSERT_INTO, tableT, <<Element(colQ, opAssign, <<"1">>)>>)
InsertBadLater == Line(kwINSERT_INTO, tableT,
                       <<Element(colA, opAssign, <<"x">>), Element(colQ, opAssign, <<"1">>)>>)
InsertFour    == Line(kwINSERT_INTO, tableT,
                      <<Element(colA, opAssign, <<"x">>), Element(colB, opAssign, <<"1">>),
                        Element(colC, opAssign, <<"2",".","5">>), Element(colA, opAssign, <<"y">>)>>)
InsertEqual   == Line(kwINSERT_INTO, tableT, <<Element(colA, opEq, <<"x">>)>>)
InsertStored  == Line(kwINSERT_INTO, stored7, <<Element(colK, opAssign, strTrue)>>)
InsertLong    == Line(kwINSERT_INTO, tableLong, <<Element(colK, opAssign, strTrue)>>)

SelectAll     == Line(kwSELECT, tableT, <<>>)
SelectC       == Line(kwSELECT, tableT, <<Element(colC, opEq, <<"7">>)>>)
SelectTwo     == Line(kwSELECT, tableT,
                      <<Element(colB, opGe, <<"1">>), Element(colA, opEq, <<"x">>)>>)
SelectGt      == Line(kwSELECT, tableT, <<Element(colB, <<">">>, <<"0">>)>>)
SelectLt      == Line(kwSELECT, tableT, <<Element(colB, <<"<">>, <<"5">>)>>)
SelectGe      == Line(kwSELECT, tableT, <<Element(colB, opGe, <<"0">>)>>)
SelectLe      == Line(kwSELECT, tableT, <<Element(colB, <<"<","=">>, <<"5">>)>>)
SelectLeNo    == Line(kwSELECT, tableT, <<Element(colB, <<"<","=">>, <<"0">>)>>)
SelectStrGt   == Line(kwSELECT, tableT, <<Element(colA, <<">">>, <<"w">>)>>)
SelectAssign  == Line(kwSELECT, tableT, <<Element(colB, opAssign, <<"9">>)>>)
SelectBad     == Line(kwSELECT, tableT, <<Element(colQ, opEq, <<"5">>)>>)
SelectBare    == kwSELECT \o <<":">> \o tableT \o <<" ">> \o colA \o <<" ", "1">>
SelectOpInValue == Line(kwSELECT, tableT,
                        <<Element(colB, opGe, <<"1">>), Element(colA, opEq, <<"1","=","2">>)>>)
DeleteOpInValue == Line(kwDELETE, tableT,
                        <<Element(colB, opEq, <<"1">>), Element(colA, opEq, <<"=","x">>)>>)
SelectLong    == Line(kwSELECT, tableLong, <<>>)

UpdateNone    == Line(kwUPDATE, tableT,
                      <<Element(colB, opEq, <<"9">>), Element(colA, opAssign, <<"z">>)>>)
UpdateSome    == Line(kwUPDATE, tableT,
                      <<Element(colB, opEq, <<"1">>), Element(colC, opAssign, <<"4">>)>>)
UpdateSep     == Line(kwUPDATE, tableT, <<Element(colA, opAssign, <<"x",";","y">>)>>)
UpdateBadFirst == Line(kwUPDATE, tableT,
                      <<Element(colQ, opEq, <<"1">>), Element(colA, opAssign, <<"z">>)>>)

DeleteAll     == Line(kwDELETE, tableT, <<>>)
DeleteSome    == Line(kwDELETE, tableT, <<Element(colB, opEq, <<"1">>)>>)
DeleteBadLater == Line(kwDELETE, tableT,
                      <<Element(colB, opEq, <<"1">>), Element(colQ, opEq, <<"5">>)>>)
DeleteBadFirst == Line(kwDELETE, tableT, <<Element(colQ, opEq, <<"5">>)>>)

DeleteAssign  == Line(kwDELETE, tableT, <<Element(colB, opAssign, <<"9">>)>>)
DeleteC       == Line(kwDELETE, tableT, <<Element(colC, opEq, <<"7">>)>>)
DropT == Line(<<"D","R","O","P">>, tableT, <<>>)

\* what input holds when SQLExecuteQuery is called: fgets has written the line,
\* its newline and a terminator over the bytes of previous, and main has put a
\* terminator in the place of the newline
Input(line, previous) ==
  line \o <<"NUL", "NUL">> \o SubSeq(previous, Len(line) + 3, Len(previous))

\* lines with a quoted value, closed and left open
InsertQuoted == Line(kwINSERT_INTO, tableT,
                     <<Element(colA, opAssign, <<"'","p"," ","q","'">>),
                       Element(colB, opAssign, <<"2">>)>>)
SelectQuoted == Line(kwSELECT, tableT, <<Element(colA, opEq, <<"'","p"," ","q","'">>)>>)
SelectQuotedOp == Line(kwSELECT, tableT, <<Element(colA, opEq, <<"'","x","=","y","'">>)>>)
SelectOpen   == Line(kwSELECT, tableT, <<Element(colA, opEq, <<"'","x">>)>>)
DeleteOpen   == Line(kwDELETE, tableT, <<Element(colA, opEq, <<"'","x">>)>>)
DeleteOpenPadded == kwDELETE \o <<":">> \o tableT \o <<" "," "," ">>
                      \o Element(colB, opEq, <<"1">>) \o <<" ">>
                      \o Element(colA, opEq, <<"'","x">>)

\* names typed where a command or a data type is expected: the keywords, and
\* names that differ from them in case, in length, or altogether
CommandNames ==
  {kwDATASET, kwDELETE, kwINSERT_INTO, kwSELECT, kwUPDATE, kwSTRING,
   <<"s","e","l","e","c","t">>, <<"S","E","L","E","C">>, <<"S","E","L","E","C","T","S">>,
   <<"I","N","S","E","R","T">>, <<"A">>, <<"Z">>}

TypeNames ==
  {kwBOOLEAN, kwINTEGER, kwNUMBER, kwSTRING, kwSELECT,
   <<"S","t","r","i","n","g">>, <<"N","U","M">>, <<"Z">>}

\* a line that starts with the name, and a CREATE of a column of that type
CommandLine(name) == Line(name, tableT, <<>>)

TypeLine(name) == Line(kwDATASET, tableT, <<Element(colA, opAssign, name)>>)

\* the example of the specification, as it is written there
Example ==
  << <<"D","A","T","A","S","E","T"," ","u","s","e","r","s"," ","n","a","m","e"," ",
       "S","T","R","I","N","G"," ","a","g","e"," ","I","N","T","E","G","E","R">>,
     <<"I","N","S","E","R","T","_","I","N","T","O"," ","u","s","e","r","s"," ",
       "n","a","m","e","=","'","A","n","n","'"," ","a","g","e","=","3","0">>,
     <<"S","E","L","E","C","T"," ","u","s","e","r","s"," ","a","g","e",">","2","5">>,
     <<"D","E","L","E","T","E"," ","u","s","e","r","s"," ","a","g","e",">","2","5">>,
     <<"S","E","L","E","C","T"," ","u","s","e","r","s">> >>

\* the statements on the rows of table t
StorageQueries ==
  {CreateT, InsertFull, InsertSwapped, InsertSep, InsertOne, InsertEqual,
   SelectAll, SelectC, SelectTwo,
   UpdateNone, UpdateSome, UpdateSep, UpdateBadFirst,
   DeleteAll, DeleteSome, DeleteBadLater, DeleteBadFirst, DropT, Example[1]}

\* the INSERTs, accepted and rejected, among the other statements
InsertQueries ==
  {CreateT, InsertFull, InsertSwapped, InsertOne, InsertEqual, InsertBad,
   InsertBadLater, InsertFour, SelectAll, UpdateSome, DeleteAll, DropT, Example[1]}

\* lines that fail to parse or to classify, among the other statements
ClassifyQueries ==
  {CreateT, CreateBadType, InsertFull, InsertOne, SelectAll, UpdateSome,
   DeleteAll, DropT, Example[1], Example[2]}

\* the operator lexemes of the query language, with ":" for Assign, and the
\* operator each is documented to stand for
Lexemes ==
  {<<"=">>, <<"!","=">>, <<"<",">">>, <<"<">>, <<">">>, <<"<","=">>, <<">","=">>, <<":">>}

OperatorOf(lexeme) ==
  CASE lexeme = <<"=">>     -> "EqualOperator"
    [] lexeme = <<"!","=">> -> "NotEqualOperator"
    [] lexeme = <<"<",">">> -> "NotEqualOperator"
    [] lexeme = <<"<">>     -> "LessThanOperator"
    [] lexeme = <<">">>     -> "GreaterThanOperator"
    [] lexeme = <<"<","=">> -> "LessOrEqualOperator"
    [] lexeme = <<">","=">> -> "GreaterOrEqualOperator"
    [] OTHER                -> "AssignOperator"

\* a (column, operator, value) triple as it is typed
Triple(keyword, lexeme, value) == [keyword |-> keyword, lexeme |-> lexeme, value |-> value]

\* the white space typed between the elements (gap) and around the operators (pad)
Spacings == {[gap |-> <<" ">>, pad |-> <<>>], [gap |-> <<" ", "\t">>, pad |-> <<" ">>]}

\* a SELECT on t with one condition on a, or one on b and one on a, and its spacing
Builds ==
  [triples : {<<Triple(colA, x, <<"1">>)>> : x \in Lexemes}
               \cup {<<Triple(colB, <<">","=">>, <<"x","y">>), Triple(colA, x, <<"1">>)>> :
                       x \in {<<"!","=">>, <<"<","=">>, <<":">>}},
   spacing : Spacings]

RECURSIVE RenderTriples(_, _)
RenderTriples(triples, spacing) ==
  IF triples = <<>> THEN <<>>
  ELSE spacing.gap \o triples[1].keyword \o spacing.pad \o triples[1].lexeme
         \o spacing.pad \o triples[1].value \o RenderTriples(Tail(triples), spacing)

\* the line typed for a build
Render(b) == kwSELECT \o <<":">> \o tableT \o RenderTriples(b.triples, b.spacing)

\* the lines of the builds, among the other statements
ParseQueries ==
  {Render(b) : b \in Builds}
    \cup {SelectBare, SelectOpInValue, DeleteOpInValue,
          CreateT, InsertFull, UpdateSome, DeleteAll, DropT}

\* filters of every operator, among the other statements
FilterQueries ==
  {CreateT, InsertFull, InsertOne,
   SelectGt, SelectLt, SelectGe, SelectLe, SelectLeNo, SelectStrGt,
   SelectAssign, SelectBad, DeleteAssign, DeleteC, UpdateSome, DropT, Example[1]}

\* the CREATEs, among the other statements
SchemaQueries ==
  {CreateT, CreateLong, CreateBadType, CreateDup, InsertOne, SelectAll, SelectLong,
   UpdateSome, DeleteAll, DropT, Example[1]}

\* quoted values, among the other statements; a line left open is typed as
\* the first line, or after the longer INSERT
QuoteQueries ==
  {CreateT, InsertFull, InsertQuoted, SelectQuoted, SelectQuotedOp, SelectAll,
   UpdateSome, DropT,
   Input(SelectOpen, InsertFull), Input(DeleteOpen, <<>>),
   Input(DeleteOpenPadded, InsertFull)}

\* every name as a command and as a data type, and a line that does not parse
NameQueries ==
  {CommandLine(n) : n \in CommandNames} \cup {TypeLine(n) : n \in TypeNames}
    \cup {SelectOpInValue}

\* the statements on the catalog, and the example
CatalogQueries ==
  {CreateT, CreateLong, InsertFull, InsertStored, InsertLong,
   SelectAll, SelectLong, UpdateSome, DeleteAll, DropT}
  \cup {Example[i] : i \in 1..Len(Example)}

\* the statements run on a failing file system
FaultQueries ==
  {CreateT, InsertFull, InsertSwapped, SelectAll, UpdateSome, DeleteSome,
   DeleteAll, DropT, Example[1]}

Queries == StorageQueries \cup CatalogQueries \cup FaultQueries \cup InsertQueries
           \cup ClassifyQueries \cup ParseQueries \cup FilterQueries
           \cup SchemaQueries \cup QuoteQueries \cup NameQueries

\* the names a table file can have: the names the catalog can hold
FileNames == {tableT, stored7}

\* SQLParser_Parse of each query line of the model
Parsed == [q \in Queries |-> SQLParser_Parse(q)]

(***************************************************************************)
(* State.                                                                  *)
(***************************************************************************)
VARIABLES
  catalog,   \* the file __tables_data.dat: [exists, records]
  files,     \* the table files, by name: [exists, lines]
  temps,     \* the number of __database_Temporary_ files left behind
  out,       \* the rows the last statement printed
  ret,       \* what the last call returned: "0", "1", or "crash"
  last,      \* the query line of the last call
  before,    \* the line of the call before the last, kept while the last
             \* call repeats it or is a SELECT without conditions; else <<>>
  prev,      \* catalog, files and temps before the last call
  ex         \* how many lines of Example have run, and nothing else; else -1

vars == <<catalog, files, temps, out, ret, last, before, prev, ex>>

Init ==
  /\ catalog = [exists |-> FALSE, records |-> <<>>]
  /\ files = [n \in FileNames |-> NoFile]
  /\ temps = 0
  /\ out = <<>>
  /\ ret = "none"
  /\ last = <<>>
  /\ before = <<>>
  /\ prev = [catalog |-> [exists |-> FALSE, records |-> <<>>],
             files |-> [n \in FileNames |-> NoFile], temps |-> 0]
  /\ ex = 0

\* the tokens of a query line and the command it names
ListOf(q) == Parsed[q].list

KindOf(q) ==
  IF ListOf(q) = <<>> THEN "None"
  ELSE SQLParser_GetQueryType(ListOf(q)[1].keyword)

\* the table SQLExecuteQuery looks up for the query line
TableOf(q, cat) == SQLParser_FindTable(ListOf(q)[1].value, cat)

\* the call returns (or the process goes down) leaving cat and outcome o
Return(q, cat, o, value) ==
  /\ catalog' = cat
  /\ files' = o.files
  /\ temps' = o.temps
  /\ out' = o.out
  /\ ret' = IF o.crashed THEN "crash" ELSE value
  /\ last' = q
  /\ before' = IF q = last \/ (KindOf(q) = "Select" /\ Len(ListOf(q)) = 1)
               THEN last ELSE <<>>
  /\ prev' = [catalog |-> catalog, files |-> files, temps |-> temps]
  /\ ex' = IF ex >= 0 /\ ex < Len(Example) /\ q = Example[ex + 1]
           THEN ex + 1 ELSE -1

Unchanged == Outcome(files, temps, <<>>, FALSE)

(***************************************************************************)
(* SQLExecuteQuery, one action per branch.                                 *)
(***************************************************************************)
\* SQLParser_Parse returned NULL
ParseFailure(q) ==
  /\ ListOf(q) = <<>>
  /\ Return(q, catalog, Unchanged, "1")

Create(q) ==
  /\ KindOf(q) = "Create"
  /\ Len(catalog.records) < MaxTables
  /\ IF TableOf(q, catalog).name = <<>>
     THEN Return(q, SQLParser_CreateTable(ListOf(q), catalog).cat, Unchanged, "0")
     ELSE Return(q, catalog, Unchanged, "0")

Select(q, u) ==
  /\ KindOf(q) = "Select"
  /\ Return(q, catalog,
            SQLselect(ListOf(q), TableOf(q, catalog), files, temps, u), "0")

Insert(q) ==
  /\ KindOf(q) = "Insert"
  /\ Len(FileOf(files, TableOf(q, catalog).name).lines) < MaxRows
  /\ Return(q, catalog,
            SQLinsert(ListOf(q), TableOf(q, catalog), files, temps), "0")

Update(q, u, f) ==
  /\ KindOf(q) = "Update"
  /\ temps < MaxTemps
  /\ Return(q, catalog,
            SQLupdate(ListOf(q), TableOf(q, catalog), files, temps, u, f), "0")

Delete(q, u, f) ==
  /\ KindOf(q) = "Delete"
  /\ temps < MaxTemps
  /\ Return(q, catalog,
            SQLdelete(ListOf(q), TableOf(q, catalog), files, temps, u, f), "0")

\* the default branch of the switch
Other(q) ==
  /\ KindOf(q) = "Invalid"
  /\ Return(q, catalog, Unchanged, "0")

\* one call of SQLExecuteQuery on a line of Qs, on a file system failing as in Fs
Call(Qs, Fs) ==
  \E q \in Qs :
    \/ ParseFailure(q)
    \/ Create(q)
    \/ \E u \in Undefined : Select(q, u)
    \/ Insert(q)
    \/ \E u \in Undefined, f \in Fs : Update(q, u, f)
    \/ \E u \in Undefined, f \in Fs : Delete(q, u, f)
    \/ Other(q)

Next == Call(StorageQueries, {NoFault})

Spec == Init /\ [][Next]_vars

NextCatalog == Call(CatalogQueries, {NoFault})

SpecCatalog == Init /\ [][NextCatalog]_vars

\* the same program on a file system whose operations may fail
NextIO == Call(FaultQueries, Faults)

SpecIO == Init /\ [][NextIO]_vars

\* the program run on INSERTs of every kind
NextInsert == Call(InsertQueries, {NoFault})

SpecInsert == Init /\ [][NextInsert]_vars

\* the program run on lines that do not parse or classify
NextClassify == Call(ClassifyQueries, {NoFault})

SpecClassify == Init /\ [][NextClassify]_vars

\* the program run on the lines of the builds
NextParse == Call(ParseQueries, {NoFault})

SpecParse == Init /\ [][NextParse]_vars

\* the program run on quoted values
NextQuote == Call(QuoteQueries, {NoFault})

SpecQuote == Init /\ [][NextQuote]_vars

\* the program run on every name as a command and as a data type
NextNames == Call(NameQueries, {NoFault})

SpecNames == Init /\ [][NextNames]_vars

\* the program run on filters of every operator
NextFilter == Call(FilterQueries, {NoFault})

SpecFilter == Init /\ [][NextFilter]_vars

\* the program run on CREATEs of every kind
NextSchema == Call(SchemaQueries, {NoFault})

SpecSchema == Init /\ [][NextSchema]_vars

(***************************************************************************)
(* Properties.                                                             *)
(***************************************************************************)
\* the last call ran a statement of this kind
Ran(kind) == last \in Queries /\ KindOf(last) = kind

\* the table the last call named, as the catalog holds it now
LastTable == TableOf(last, catalog)

EmptyRow == [index |-> 0, columns |-> <<>>, columnCount |-> 0]

\* the last call was a SELECT without conditions and the call before it an
\* INSERT into the same table, which is in the catalog, that passed validation
InsertThenSelect ==
  /\ Ran("Select") /\ Len(ListOf(last)) = 1
  /\ before \in Queries /\ KindOf(before) = "Insert"
  /\ ListOf(before)[1].value = ListOf(last)[1].value
  /\ LastTable.name # <<>>
  /\ InsertLoop(Tail(ListOf(before)), LastTable, EmptyRow).accepted

\* C1: an accepted INSERT followed by a SELECT without filter returns a row
\* in which each assigned column holds the inserted literal converted to the
\* declared type of that column
C1_InsertThenSelectReturnsRow ==
  InsertThenSelect =>
    /\ out # <<>>
    /\ LET row == out[Len(out)]
       IN  \A k \in 2..Len(ListOf(before)) :
             LET token == ListOf(before)[k]
                 j == SQLParser_FindColumn(LastTable, token.keyword)
             IN  /\ j + 1 <= Len(row)
                 /\ row[j + 1].type = TypeAt(LastTable, j)
                 /\ row[j + 1].value =
                      SQLvalueFromStringAndType(token.value, TypeAt(LastTable, j))

\* the last call was a DATASET whose table name was not in the catalog
CreatedNew ==
  /\ Ran("Create")
  /\ Len(ListOf(last)[1].value) <= 127
  /\ SQLParser_FindTable(ListOf(last)[1].value, prev.catalog).name = <<>>

\* C2: after CREATE of a name not yet in the catalog, the lookup of the same
\* name returns a schema with that name and the columns, types and order given
C2_CreateThenFindTable ==
  CreatedNew =>
    LET list == ListOf(last)
        found == SQLParser_FindTable(list[1].value, catalog)
    IN  /\ found.name = list[1].value
        /\ found.count = Len(list) - 1
        /\ found.columns = [k \in 1..(Len(list) - 1) |-> list[k + 1].keyword]
        /\ found.columnTypes =
             [k \in 1..(Len(list) - 1) |-> SQLParser_GetFieldType(list[k + 1].value)]

\* the row (name = 'Ann', age = 30) as a SELECT prints it
AnnRow ==
  << [type |-> "String", position |-> 0,
      value |-> [ZeroValue EXCEPT !.string = <<"A","n","n">>]],
     [type |-> "Integer", position |-> 1,
      value |-> [ZeroValue EXCEPT !.integer = 30]] >>

\* C3: from an empty catalog, after the first three lines of the example the
\* SELECT has printed exactly the row (Ann, 30), and after all five lines the
\* last SELECT has printed no row
C3_ExampleYieldsOneRowThenNone ==
  /\ ex = 3 => (ret = "0" /\ out = <<AnnRow>>)
  /\ ex = 5 => (ret = "0" /\ out = <<>>)

\* the condition token is true of the value the row stores for its column
HoldsOn(token, tableStructure, row) ==
  LET position == SQLParser_FindColumn(tableStructure, token.keyword)
  IN  /\ position # -1
      /\ position < row.columnCount
      /\ SQLcompareValues(token, row.columns[position + 1].value,
                          row.columns[position + 1].type) = 1

\* the rows, in order, on which every condition of list is true
RECURSIVE RowsHolding(_, _, _)
RowsHolding(rows, list, tableStructure) ==
  IF rows = <<>> THEN <<>>
  ELSE (IF \A k \in 2..Len(list) : HoldsOn(list[k], tableStructure, rows[1])
        THEN <<rows[1]>> ELSE <<>>)
       \o RowsHolding(Tail(rows), list, tableStructure)

\* C4: a SELECT that returns prints exactly the rows of the table file on
\* which every condition is true of the stored value, in file order
C4_SelectReturnsExactlyMatchingRows ==
  (Ran("Select") /\ LastTable.name # <<>> /\ ret = "0") =>
    out = SQLprintTable(
            RowsHolding(LoadRows(FileOf(files, LastTable.name).lines, <<>>, LastTable),
                        ListOf(last), LastTable))

\* the table file a rewrite installs when nothing fails, the struct Table
\* unset as in u
Replacement(u) ==
  IF KindOf(last) = "Update"
  THEN SQLupdate(ListOf(last), LastTable, prev.files, prev.temps, u, NoFault).files[LastTable.name]
  ELSE SQLdelete(ListOf(last), LastTable, prev.files, prev.temps, u, NoFault).files[LastTable.name]

\* C5: after an UPDATE or DELETE, whichever step failed, the table file holds
\* its complete content of before the statement or the complete replacement
C5_RewriteIsAllOrNothing ==
  ((Ran("Update") \/ Ran("Delete")) /\ LastTable.name # <<>>
     /\ prev.files[LastTable.name].exists) =>
    \/ files[LastTable.name] = prev.files[LastTable.name]
    \/ \E u \in Undefined : files[LastTable.name] = Replacement(u)

\* C6: an UPDATE or DELETE on a table with rows in which a token after the
\* first names a column that is not in the schema leaves the table file and
\* the temporary files as they were
C6_UnknownColumnAbortsRewrite ==
  ((Ran("Update") \/ Ran("Delete")) /\ LastTable.name # <<>>
     /\ prev.files[LastTable.name].lines # <<>>
     /\ \E k \in 2..Len(ListOf(last)) :
          SQLParser_FindColumn(LastTable, ListOf(last)[k].keyword) = -1) =>
    /\ files = prev.files
    /\ temps = prev.temps

\* C7: a SELECT without conditions that follows a DELETE without conditions
\* on the same table returns, and returns no row
C7_DeleteAllThenSelectIsEmpty ==
  (/\ Ran("Select") /\ Len(ListOf(last)) = 1
   /\ before \in Queries /\ KindOf(before) = "Delete" /\ Len(ListOf(before)) = 1
   /\ ListOf(before)[1].value = ListOf(last)[1].value
   /\ LastTable.name # <<>>) =>
    (ret = "0" /\ out = <<>>)

\* the filter of list matches no row of the lines
MatchesNoRow(list, tableStructure, lines) ==
  \A i \in 1..Len(lines) :
    SQLfilterRow(list, tableStructure, SQLreadRow(lines[i], tableStructure)) = 0

\* C8: an UPDATE whose filter matches no row leaves the lines of the table
\* file as they were
C8_UpdateOfNoRowKeepsFile ==
  (Ran("Update") /\ LastTable.name # <<>>
     /\ MatchesNoRow(ListOf(last), LastTable, prev.files[LastTable.name].lines)) =>
    files[LastTable.name].lines = prev.files[LastTable.name].lines

\* C9: an UPDATE run twice in a row leaves the table file the first run left
C9_UpdateTwiceIsUpdateOnce ==
  (Ran("Update") /\ before = last /\ LastTable.name # <<>>) =>
    files[LastTable.name].lines = prev.files[LastTable.name].lines

\* C10: no two records of the catalog carry the same table name
C10_TableNamesUnique ==
  \A i, j \in 1..Len(catalog.records) :
    i # j => catalog.records[i].name # catalog.records[j].name

\* the table names the query lines use
TableNames == {tableT, tableLong, stored7}

\* C11: the catalog only grows by appending: a call leaves the records as
\* they were or is a CREATE that returned 0 and added one record at the end,
\* and a name that resolved before the call resolves to the same schema after
C11_CatalogAppendOnly ==
  /\ \/ catalog.records = prev.catalog.records
     \/ /\ Ran("Create") /\ ret = "0"
        /\ Len(catalog.records) = Len(prev.catalog.records) + 1
        /\ SubSeq(catalog.records, 1, Len(prev.catalog.records)) = prev.catalog.records
  /\ \A name \in TableNames :
       SQLParser_FindTable(name, prev.catalog).name # <<>> =>
         SQLParser_FindTable(name, catalog) = SQLParser_FindTable(name, prev.catalog)

\* C11 witness: a CREATE appended a record to a catalog that held one already
C11_Witness ==
  /\ Ran("Create")
  /\ Len(prev.catalog.records) >= 1
  /\ Len(catalog.records) = Len(prev.catalog.records) + 1

\* a token after the first of the last line is no assignment to a column of
\* the schema
BadAssignment ==
  \E k \in 2..Len(ListOf(last)) :
    \/ ListOf(last)[k].operator # "AssignOperator"
    \/ SQLParser_FindColumn(LastTable, ListOf(last)[k].keyword) = -1

\* C12: an INSERT leaves every table file as it was or appends exactly one
\* record to the file of its table, the records before it untouched; with a
\* token that is not an Assign or names no column of the schema it appends
\* nothing
C12_InsertAppendsOneOrNothing ==
  Ran("Insert") =>
    /\ temps = prev.temps
    /\ \A name \in FileNames :
         \/ files[name] = prev.files[name]
         \/ /\ name = LastTable.name
            /\ files[name].exists
            /\ Len(files[name].lines) = Len(prev.files[name].lines) + 1
            /\ SubSeq(files[name].lines, 1, Len(prev.files[name].lines))
                 = prev.files[name].lines
    /\ BadAssignment => files = prev.files

\* C12 witness: an INSERT appended a record to a file that held one already
C12_Witness ==
  /\ Ran("Insert")
  /\ prev.files[tableT].lines # <<>>
  /\ Len(files[tableT].lines) = Len(prev.files[tableT].lines) + 1

\* the last statement did not take effect because of an error: a parse
\* error, an unknown command, a CREATE of a name that resolved, a statement
\* on a name that does not resolve, a token naming no column of the schema,
\* or a token of an INSERT that is no Assign
Errored ==
  /\ last \in Queries
  /\ \/ ListOf(last) = <<>>
     \/ KindOf(last) = "Invalid"
     \/ KindOf(last) = "Create" /\ TableOf(last, prev.catalog).name # <<>>
     \/ /\ KindOf(last) \in {"Select", "Insert", "Update", "Delete"}
        /\ \/ LastTable.name = <<>>
           \/ \E k \in 2..Len(ListOf(last)) :
                SQLParser_FindColumn(LastTable, ListOf(last)[k].keyword) = -1
           \/ /\ KindOf(last) = "Insert"
              /\ \E k \in 2..Len(ListOf(last)) :
                   ListOf(last)[k].operator # "AssignOperator"

\* C13: SQLExecuteQuery returns a failure for every statement that did not
\* take effect because of an error
C13_ErrorsReturnFailure == Errored => ret = "1"

\* the last line did not parse, or its command keyword is unknown, or it is
\* a CREATE with a type keyword that is unknown
Unclassified ==
  /\ last \in Queries
  /\ \/ ListOf(last) = <<>>
     \/ KindOf(last) = "Invalid"
     \/ /\ KindOf(last) = "Create"
        /\ \E k \in 2..Len(ListOf(last)) :
             SQLParser_GetFieldType(ListOf(last)[k].value) = "Invalid"

\* C14: a line that fails to parse or to classify creates and writes neither
\* the catalog file nor a table file; a CREATE naming an unknown type keyword
\* appends no record
C14_UnclassifiedTouchesNoStorage ==
  Unclassified =>
    /\ catalog = prev.catalog
    /\ files = prev.files
    /\ temps = prev.temps

\* the tokens of a build: the command with the table, then one token per
\* triple, in the order typed
TokensOf(b) ==
  <<Token(kwSELECT, "AssignOperator", tableT)>>
    \o [k \in 1..Len(b.triples) |->
          Token(b.triples[k].keyword, OperatorOf(b.triples[k].lexeme), b.triples[k].value)]

\* C15: SQLParser_Parse returns, for a line built from a command, a table and
\* triples, one token per triple in the order typed, with the column, the
\* operator and the value of the triple, whatever white space is typed
\* between the elements
C15_ParseReturnsTheTriples ==
  \A b \in Builds : last = Render(b) => ListOf(last) = TokensOf(b)

\* every relational token of list is true of the value the row stores
Matches(list, tableStructure, row) ==
  \A k \in 2..Len(list) :
    list[k].operator \in RelationalOperators => HoldsOn(list[k], tableStructure, row)

\* the lines whose rows do not match, in order
RECURSIVE Retained(_, _, _)
Retained(lines, list, tableStructure) ==
  IF lines = <<>> THEN <<>>
  ELSE (IF Matches(list, tableStructure, SQLreadRow(lines[1], tableStructure))
        THEN <<>> ELSE <<lines[1]>>)
       \o Retained(Tail(lines), list, tableStructure)

\* the row stores, for every Assign token of list, the literal converted to
\* the declared type of the column
Assigned(list, tableStructure, row) ==
  \A k \in 2..Len(list) :
    list[k].operator = "AssignOperator" =>
      LET j == SQLParser_FindColumn(tableStructure, list[k].keyword)
      IN  /\ j < row.columnCount
          /\ row.columns[j + 1].value =
               SQLvalueFromStringAndType(list[k].value, TypeAt(tableStructure, j))

\* the last call was an UPDATE or DELETE on a table with rows, every token
\* naming a column of its schema
Rewrote(kind) ==
  /\ Ran(kind)
  /\ LastTable.name # <<>>
  /\ prev.files[LastTable.name].lines # <<>>
  /\ \A k \in 2..Len(ListOf(last)) :
       SQLParser_FindColumn(LastTable, ListOf(last)[k].keyword) # -1

\* C16: a DELETE leaves exactly the rows that do not match its filter, as they
\* were and in their order; an UPDATE keeps the number of rows, leaves the
\* rows that do not match as they were and stores the assigned literals in
\* the rows that match
C16_RewriteKeepsTheOtherRows ==
  LET old == prev.files[LastTable.name].lines
      new == files[LastTable.name].lines
  IN  /\ Rewrote("Delete") => new = Retained(old, ListOf(last), LastTable)
      /\ Rewrote("Update") =>
           /\ Len(new) = Len(old)
           /\ \A i \in 1..Len(old) :
                IF Matches(ListOf(last), LastTable, SQLreadRow(old[i], LastTable))
                THEN Assigned(ListOf(last), LastTable, SQLreadRow(new[i], LastTable))
                ELSE new[i] = old[i]

\* v operator L on the sign c of the comparison of v with L
Relation(operator, c) ==
  CASE operator = "EqualOperator"          -> c = 0
    [] operator = "NotEqualOperator"       -> c # 0
    [] operator = "GreaterThanOperator"    -> c > 0
    [] operator = "GreaterOrEqualOperator" -> c >= 0
    [] operator = "LessThanOperator"       -> c < 0
    [] operator = "LessOrEqualOperator"    -> c <= 0
    [] OTHER -> FALSE

\* the condition of the token is true of the row, the stored value being the
\* left operand and the literal the right one
TrueOf(token, tableStructure, row) ==
  LET j == SQLParser_FindColumn(tableStructure, token.keyword)
      value == row.columns[j + 1].value
  IN  IF TypeAt(tableStructure, j) = "Integer"
      THEN Relation(token.operator, value.integer - strtol(token.value))
      ELSE Relation(token.operator, strcmp(value.string, token.value))

RECURSIVE RowsTrueOf(_, _, _)
RowsTrueOf(rows, token, tableStructure) ==
  IF rows = <<>> THEN <<>>
  ELSE (IF TrueOf(token, tableStructure, rows[1]) THEN <<rows[1]>> ELSE <<>>)
       \o RowsTrueOf(Tail(rows), token, tableStructure)

\* the rows of the file of the table of the last call
StoredRows == LoadRows(FileOf(files, LastTable.name).lines, <<>>, LastTable)

\* the last call was a SELECT with one condition, its operator among
\* operators and its column of a type among types, on a table all of whose
\* rows store that column
SelectedBy(operators, types) ==
  /\ Ran("Select") /\ Len(ListOf(last)) = 2
  /\ LastTable.name # <<>>
  /\ ListOf(last)[2].operator \in operators
  /\ LET j == SQLParser_FindColumn(LastTable, ListOf(last)[2].keyword)
     IN  /\ j # -1
         /\ TypeAt(LastTable, j) \in types
         /\ StoredRows # <<>>
         /\ \A i \in 1..Len(StoredRows) : j < StoredRows[i].columnCount

\* C17: for an Integer or String column and the operators >, < and >=, a
\* SELECT with the condition col op L returns exactly the rows whose stored
\* value v satisfies v op L
C17_StoredValueIsLeftOperand ==
  SelectedBy({"GreaterThanOperator", "LessThanOperator", "GreaterOrEqualOperator"},
             {"Integer", "String"}) =>
    out = SQLprintTable(RowsTrueOf(StoredRows, ListOf(last)[2], LastTable))

\* C18: for an Integer column a SELECT with the condition col <= L returns
\* exactly the rows whose stored value v satisfies v <= L
C18_LessOrEqualOnIntegers ==
  SelectedBy({"LessOrEqualOperator"}, {"Integer"}) =>
    out = SQLprintTable(RowsTrueOf(StoredRows, ListOf(last)[2], LastTable))

\* C18 witness: a SELECT with <= on an Integer column returned a row
C18_Witness ==
  SelectedBy({"LessOrEqualOperator"}, {"Integer"}) /\ out # <<>>

\* the last call named a table with rows, and a token after the first
\* satisfies Odd
FilteredWith(Odd(_)) ==
  /\ LastTable.name # <<>>
  /\ prev.files[LastTable.name].lines # <<>>
  /\ \E k \in 2..Len(ListOf(last)) : Odd(ListOf(last)[k])

NotRelational(token) == token.operator \notin RelationalOperators

NamesNoColumn(token) == SQLParser_FindColumn(LastTable, token.keyword) = -1

\* C19: a SELECT or DELETE with a filter token whose operator is none of the
\* six relational operators fails: it returns a failure, prints no row and
\* leaves the table file as it was
C19_UnsupportedOperatorFails ==
  ((Ran("Select") \/ Ran("Delete")) /\ FilteredWith(NotRelational)) =>
    /\ ret = "1"
    /\ out = <<>>
    /\ files = prev.files

\* C20: a SELECT on a table with rows whose filter names a column that is not
\* in the schema returns no row
C20_SelectUnknownColumnReturnsNothing ==
  (Ran("Select") /\ FilteredWith(NamesNoColumn)) => out = <<>>

\* C21: an INSERT with more assignments than the table has columns appends
\* nothing, and every row stored in the file of a table of the catalog has at
\* most as many fields after its index as the schema has columns
C21_NoRowWiderThanTheSchema ==
  /\ (Ran("Insert") /\ LastTable.name # <<>>
        /\ Len(ListOf(last)) - 1 > LastTable.count) => files = prev.files
  /\ \A i \in 1..Len(catalog.records) :
       LET tableStructure == catalog.records[i]
           lines == FileOf(files, tableStructure.name).lines
       IN  \A n \in 1..Len(lines) :
             SQLreadRow(lines[n], tableStructure).columnCount <= tableStructure.count

\* C22: every record of the catalog has at most 128 columns, and no two of
\* its columns carry the same name
C22_SchemaRecordsWellFormed ==
  \A i \in 1..Len(catalog.records) :
    LET tableStructure == catalog.records[i]
    IN  /\ tableStructure.count <= 128
        /\ \A j, k \in 1..tableStructure.count :
             j # k => tableStructure.columns[j] # tableStructure.columns[k]

\* C23: a keyword, an operator lexeme and a value give a token with the
\* operator of the lexeme (= Equal, != and <> NotEqual, < LessThan,
\* > GreaterThan, <= LessOrEqual, >= GreaterOrEqual), and two identifiers with
\* only white space between them give a token with Assign
C23_LexemesGiveTheirOperators ==
  /\ \A b \in Builds :
       (last = Render(b) /\ Len(b.triples) = 1 /\ b.triples[1].lexeme # <<":">>) =>
         /\ Len(ListOf(last)) = 2
         /\ ListOf(last)[2].operator = OperatorOf(b.triples[1].lexeme)
  /\ last = SelectBare =>
       /\ Len(ListOf(last)) = 2
       /\ ListOf(last)[2] = Token(colA, "AssignOperator", <<"1">>)

\* the lines in which an operator character is met in ScanValue state: after
\* an operator, or inside a value, with tokens built before it
OperatorInValue ==
  {SelectOpInValue, DeleteOpInValue}
    \cup {Render(b) : b \in {x \in Builds : \E k \in 1..Len(x.triples) :
                                              x.triples[k].lexeme = <<"!","=">>}}

\* C24: a line in which an operator character is met in ScanValue state gives
\* a parse error and no token, the tokens built before it included, and the
\* statement changes and prints nothing
C24_OperatorInValueIsAParseError ==
  last \in OperatorInValue =>
    /\ Parsed[last].error
    /\ ListOf(last) = <<>>
    /\ ret = "1"
    /\ out = <<>>
    /\ catalog = prev.catalog /\ files = prev.files /\ temps = prev.temps

\* C24 witness: the DELETE with == was typed on a table holding a row
C24_Witness ==
  /\ last = DeleteOpInValue
  /\ prev.files[tableT].lines # <<>>
  /\ ret = "1"

\* the quotes of the line typed
Quotes(q) == {i \in 1..Len(CStr(q)) : q[i] = "'"}

ClosedQuote == {q \in QuoteQueries : Cardinality(Quotes(q)) = 2}

OpenQuote == {q \in QuoteQueries : Cardinality(Quotes(q)) = 1}

\* the text between the two quotes of a line
Span(q) ==
  LET open == CHOOSE i \in Quotes(q) : \A j \in Quotes(q) : i <= j
      close == CHOOSE i \in Quotes(q) : \A j \in Quotes(q) : j <= i
  IN  SubSeq(q, open + 1, close - 1)

\* C25: a quoted span in value position is the value of its token, verbatim up
\* to the closing quote, white space included; a line with an opening quote
\* and no closing quote is a parse error: no token list, the call fails and
\* nothing is printed or stored.
C25_QuotedSpanOrParseError ==
  /\ last \in ClosedQuote =>
       \E k \in 1..Len(ListOf(last)) : ListOf(last)[k].value = Span(last)
  /\ last \in OpenQuote =>
       /\ Parsed[last].error
       /\ ListOf(last) = <<>>
       /\ ret = "1"
       /\ files = prev.files
\* the lookup of a name in a map, entry by entry
RECURSIVE LinearLookup(_, _, _)
LinearLookup(name, map, k) ==
  IF k > Len(map) THEN "Invalid"
  ELSE IF map[k].string = name THEN map[k].type
  ELSE LinearLookup(name, map, k + 1)

\* each entry of the map is smaller than the next
Sorted(map) ==
  \A k \in 1..(Len(map) - 1) : strcmp(map[k].string, map[k + 1].string) < 0

\* the command and the data type the documentation gives for a name
CommandNamed(name) ==
  CASE name = kwDATASET     -> "Create"
    [] name = kwDELETE      -> "Delete"
    [] name = kwINSERT_INTO -> "Insert"
    [] name = kwSELECT      -> "Select"
    [] name = kwUPDATE      -> "Update"
    [] OTHER                -> "Invalid"

TypeNamed(name) ==
  CASE name = kwBOOLEAN -> "Boolean"
    [] name = kwINTEGER -> "Integer"
    [] name = kwNUMBER  -> "Number"
    [] name = kwSTRING  -> "String"
    [] OTHER            -> "Invalid"

\* C26: the command of a line is found for exactly the names DATASET, DELETE,
\* INSERT_INTO, SELECT and UPDATE, and the data type of a column for exactly
\* BOOLEAN, INTEGER, NUMBER and STRING; every other name, whatever its case or
\* length, gives Invalid; both maps are sorted and the binary search gives
\* what a lookup entry by entry gives.  The type found is the one stored for
\* the column of a new table.
C26_NamesClassified ==
  /\ Sorted(QueryTypes) /\ Sorted(DataTypes)
  /\ (last \in NameQueries /\ ListOf(last) # <<>>) =>
       LET name == ListOf(last)[1].keyword
       IN  /\ SQLParser_GetQueryType(name) = CommandNamed(name)
           /\ SQLParser_GetQueryType(name) = LinearLookup(name, QueryTypes, 1)
           /\ \A k \in 2..Len(ListOf(last)) :
                LET type == ListOf(last)[k].value
                IN  /\ SQLParser_GetFieldType(type) = TypeNamed(type)
                    /\ SQLParser_GetFieldType(type) = LinearLookup(type, DataTypes, 1)
                    /\ CreatedNew => LastTable.columnTypes[k - 1] = TypeNamed(type)
           /\ CommandNamed(name) = "Invalid" =>
                catalog = prev.catalog /\ files = prev.files /\ out = <<>>

\* a line whose name differs from SELECT in case only was run, on a catalog
\* that holds a column created with type STRING
C26_Witness ==
  /\ last = CommandLine(<<"s","e","l","e","c","t">>)
  /\ ret = "0"
  /\ catalog.records # <<>>
  /\ catalog.records[1].columnTypes = <<"String">>
\* the last call named a table the catalog did not hold
NamedUnknownTable ==
  /\ KindOf(last) \in {"Select", "Insert", "Update", "Delete"}
  /\ TableOf(last, prev.catalog).name = <<>>

\* C27: a statement that has returned changed at most one durable file: a
\* CREATE no table file, a SELECT nothing, an INSERT, UPDATE or DELETE neither
\* the catalog nor the file of another table; no temporary file remains; and
\* a statement naming a table that is not in the catalog created, changed
\* and left behind no file at all.
C27_OneFileAndNoTemporaryLeft ==
  (last \in Queries /\ ret \in {"0", "1"}) =>
    /\ temps = 0
    /\ Ran("Create") => files = prev.files
    /\ Ran("Select") => files = prev.files /\ catalog = prev.catalog
    /\ (Ran("Insert") \/ Ran("Update") \/ Ran("Delete")) =>
         /\ catalog = prev.catalog
         /\ \A n \in FileNames :
              n # ListOf(last)[1].value => files[n] = prev.files[n]
    /\ NamedUnknownTable =>
         files = prev.files /\ catalog = prev.catalog /\ temps = prev.temps
=============================================================================
